---- MODULE Spec2Model ----
(***************************************************************************)
(* Model of plugins/modules/ndo_l3out_template.py: one invocation of the   *)
(* module reads the L3Out template, locates the target L3Out, and builds   *)
(* the list of PATCH operations (create / update / delete) that it sends.  *)
(* Between the read and the PATCH a task of plugins/modules/mso_rest.py    *)
(* may change the template.                                                *)
(*                                                                         *)
(* Encoding of Python values:                                              *)
(*   - a dict is a function from key strings to values; a key that is not  *)
(*     in the DOMAIN is a missing key (dict.get gives None / its default); *)
(*   - None is the string NONE; booleans are the strings PyTrue / PyFalse  *)
(*     and integers are digit strings, so that the code's comparisons of   *)
(*     a value against None ("x != existing.get(k)") are comparisons of    *)
(*     like with like;                                                     *)
(*   - a JSON pointer "/a/b/0/c" is the sequence <<"a","b","0","c">>.      *)
(***************************************************************************)
EXTENDS Integers, Sequences, FiniteSets, TLC

VARIABLES
    l3outs,     \* the template's l3outTemplate.l3outs list held by NDO
    params,     \* the arguments (plus check_mode) of the last invocation
    snapshot,   \* the l3outs list the last invocation fetched
    ops,        \* the operation list the last invocation built
    failure,    \* "" or the kind of failure the last invocation ended with
    sent,       \* the PATCH bodies the last invocation sent, in order
    mode,       \* the branch the last invocation took
    phase       \* where the invocation is: "idle" before it; "built" with its
                \* PATCH still to send, "overtaken" when another task changed
                \* the template meanwhile; "ran" / "raced" once it has ended;
                \* "rebuilt" / "reran" for the second run of the same task

vars == <<l3outs, params, snapshot, ops, failure, sent, mode, phase>>

---------------------------------------------------------------------------
(* Python values *)

NONE == "<None>"
PyTrue == "True"
PyFalse == "False"
\* The empty dict {}. The empty list [] of Python is the same function <<>>,
\* so a value that may be either (the state a run reports) goes with its
\* type: Dict(d) or List(l).
EmptyDict == [k \in {} |-> NONE]

\* A Python dict, told from a list
Dict(d) == [type |-> "dict", value |-> d]

\* A Python list, told from a dict
List(l) == [type |-> "list", value |-> l]

\* Python truthiness of a scalar (None, "" and False are falsy).
Truthy(v) == v \notin {NONE, "", PyFalse}

\* Python truthiness of a dict.
NonEmpty(d) == DOMAIN d # {}

\* d.get(k) for a scalar-valued key.
Get(d, k) == IF k \in DOMAIN d THEN d[k] ELSE NONE

\* d.get(k, {}) for a dict-valued key.
GetDict(d, k) == IF k \in DOMAIN d THEN d[k] ELSE EmptyDict

\* d[k] = v
Put(d, k, v) == [x \in (DOMAIN d) \cup {k} |-> IF x = k THEN v ELSE d[x]]

\* del d[k]
Del(d, k) == [x \in (DOMAIN d) \ {k} |-> d[x]]

\* dict(op=..., path=..., value=...)
Op(kind, path, value) == [op |-> kind, path |-> path, value |-> value]

\* dict(op="remove", path=...)
RemoveOp(path) == [op |-> "remove", path |-> path]

\* One conditional update_ops.append(...)
When(cond, operation) == IF cond THEN <<operation>> ELSE <<>>

---------------------------------------------------------------------------
(* Bounds of the model *)

\* The most optional parameters and sub-options one invocation is given,
\* besides its identifier (and the vrf a run by name must give).
MaxSupplied == 2

---------------------------------------------------------------------------
(* The environment: the tenant's route maps and VRFs *)

route_map_objects ==
    << [name |-> "rm1", uuid |-> "rm1_uuid", tenantId |-> "t1"],
       [name |-> "rm2", uuid |-> "rm2_uuid", tenantId |-> "t1"] >>

vrf_objects ==
    << [name |-> "VRF1", uuid |-> "vrf1_uuid", l3MCast |-> PyTrue],
       [name |-> "VRF2", uuid |-> "vrf2_uuid", l3MCast |-> PyFalse] >>

\* constants.TARGET_DSCP_MAP.get(level)
TARGET_DSCP_MAP(level) ==
    CASE level = "af11" -> "af11"
      [] level = "cs0" -> "cs0"
      [] level = "expedited_forwarding" -> "expeditedForwarding"
      [] level = "voice_admit" -> "voiceAdmit"
      [] level = "unspecified" -> "unspecified"
      [] OTHER -> NONE

\* constants.ORIGINATE_DEFAULT_ROUTE.get(choice)
ORIGINATE_DEFAULT_ROUTE(choice) ==
    CASE choice = "only" -> "only"
      [] choice = "in_addition" -> "inAddition"
      [] choice = "" -> ""
      [] OTHER -> NONE

---------------------------------------------------------------------------
(* Object Locator and Reference Resolver *)

Min(S) == CHOOSE i \in S : \A j \in S : i <= j

\* MSOTemplate.get_object_from_list: the 1-based position of the first item
\* whose key has the value, 0 when there is none (Item.index is position-1).
get_object_from_list(search_list, key, value) ==
    LET hits == {i \in 1..Len(search_list) : Get(search_list[i], key) = value}
    IN IF hits = {} THEN 0 ELSE Min(hits)

\* MSOTemplate.get_route_map fails: a name was asked for and matches nothing.
route_map_not_found(route_map) ==
    Truthy(route_map) /\ get_object_from_list(route_map_objects, "name", route_map) = 0

\* MSOTemplate.get_route_map(...).get("uuid", ""): the details of the route
\* map of that name; no name asked for gives {} and so the reference "".
get_route_map(route_map) ==
    IF Truthy(route_map) /\ ~route_map_not_found(route_map)
    THEN route_map_objects[get_object_from_list(route_map_objects, "name", route_map)].uuid
    ELSE ""

\* MSOTemplate.get_vrf_object fails: the VRF is not found.
vrf_not_found(vrf) == get_object_from_list(vrf_objects, "name", Get(vrf, "name")) = 0

\* MSOTemplate.get_vrf_object(...).details
get_vrf_object(vrf) == vrf_objects[get_object_from_list(vrf_objects, "name", Get(vrf, "name"))]

---------------------------------------------------------------------------
(* main(): reading the parameters (lines 409-423) *)

\* module.params.get("vrf") if module.params.get("vrf") else {}  (same for ospf, bgp)
dict_param(p, k) == IF k \in DOMAIN p /\ NonEmpty(p[k]) THEN p[k] ELSE EmptyDict

vrf_dict(p) == dict_param(p, "vrf")

ospf(p) == dict_param(p, "ospf")

bgp(p) == dict_param(p, "bgp")

target_dscp(p) == TARGET_DSCP_MAP(Get(p, "target_dscp"))

check_mode(p) == Truthy(Get(p, "check_mode"))

---------------------------------------------------------------------------
(* main(): locating the L3Out (lines 435-465) *)

\* A lookup that goes by the name whenever one is given
l3out_object_by_name_first(p, list) ==
    IF Len(list) > 0 /\ (Truthy(Get(p, "name")) \/ Truthy(Get(p, "uuid")))
    THEN IF Truthy(Get(p, "name"))
         THEN get_object_from_list(list, "name", Get(p, "name"))
         ELSE get_object_from_list(list, "uuid", Get(p, "uuid"))
    ELSE 0

\* l3out_object: the 1-based position of the L3Out found, 0 for (None, None).
l3out_object(p, list) ==
    IF Len(list) > 0 /\ (Truthy(Get(p, "name")) \/ Truthy(Get(p, "uuid")))
    THEN IF Truthy(Get(p, "uuid"))
         THEN get_object_from_list(list, "uuid", Get(p, "uuid"))
         ELSE get_object_from_list(list, "name", Get(p, "name"))
    ELSE 0

\* An index that counts the L3Outs from 1
l3out_object_index_one_based(p, list) ==
    IF l3out_object(p, list) # 0 THEN ToString(l3out_object(p, list)) ELSE NONE

\* l3out_object_index as the path segment "{0}".format(index); None when
\* nothing was found
l3out_object_index(p, list) ==
    LET found == l3out_object(p, list)
    IN IF found # 0 THEN ToString(found - 1) ELSE NONE

\* mso.existing after the lookup: a copy of the details, {} when not found.
existing(p, list) ==
    LET found == l3out_object(p, list)
    IN IF found # 0 THEN list[found] ELSE EmptyDict

\* uuid after the back-fill of lines 457-458 (ex, idx: what the lookup found)
uuid(p, ex, idx) ==
    IF idx # NONE /\ ~Truthy(Get(p, "uuid")) THEN Get(ex, "uuid") ELSE Get(p, "uuid")

\* name after the back-fill of lines 460-461
name(p, ex, idx) ==
    IF idx # NONE /\ ~Truthy(Get(p, "name")) THEN Get(ex, "name") ELSE Get(p, "name")

---------------------------------------------------------------------------
(* main(): state=present, before the create/update split (lines 470-499) *)

\* A lookup that lets a uuid that matches nothing pass when a name is given too
uuid_not_found_unless_named(p, ex, idx) ==
    Truthy(uuid(p, ex, idx)) /\ ~NonEmpty(ex) /\ ~Truthy(Get(p, "name"))

\* line 470: a uuid was given (or found) and there is no such L3Out
uuid_not_found(p, ex, idx) == Truthy(uuid(p, ex, idx)) /\ ~NonEmpty(ex)

\* lines 481-486: PIM asked for while the given VRF has L3 multicast disabled
pim_vrf_conflict(p) ==
    /\ NonEmpty(vrf_dict(p))
    /\ ~vrf_not_found(vrf_dict(p))
    /\ Truthy(Get(p, "pim"))
    /\ get_vrf_object(vrf_dict(p)).l3MCast = PyFalse

\* lines 478-487
vrf_ref(p) ==
    IF NonEmpty(vrf_dict(p)) /\ ~vrf_not_found(vrf_dict(p))
    THEN get_vrf_object(vrf_dict(p)).uuid
    ELSE NONE

\* lines 489-499: "" on create, None on update, unless bgp / ospf decide it
routing_protocols(p, ex) ==
    IF NonEmpty(bgp(p)) /\ NonEmpty(ospf(p)) THEN "bgpOspf"
    ELSE IF NonEmpty(bgp(p)) /\ ospf(p) = EmptyDict THEN "bgp"
    ELSE IF bgp(p) = EmptyDict /\ NonEmpty(ospf(p)) THEN "ospf"
    ELSE IF NonEmpty(ex) THEN NONE
    ELSE ""

---------------------------------------------------------------------------
(* main(): create mode (lines 501-635) *)

PutIf(cond, d, k, v) == IF cond THEN Put(d, k, v) ELSE d

\* lines 502-516: name, vrfRef and the scalars given
create_scalars(p, ex, idx) ==
    LET p0 == [name |-> name(p, ex, idx), vrfRef |-> vrf_ref(p)]
        p1 == PutIf(Truthy(Get(p, "description")), p0, "description", Get(p, "description"))
        p2 == PutIf(Truthy(Get(p, "l3_domain")), p1, "l3domain", Get(p, "l3_domain"))
        p3 == PutIf(Truthy(target_dscp(p)), p2, "targetDscp", target_dscp(p))
    IN PutIf(Get(p, "pim") # NONE, p3, "pim", Get(p, "pim"))

\* lines 518-519
create_routing_protocol(p, payload) ==
    PutIf(Truthy(routing_protocols(p, EmptyDict)), payload,
          "routingProtocol", routing_protocols(p, EmptyDict))

\* lines 521-556: outer_route_maps
create_outer_route_maps(p) ==
    LET m0 == EmptyDict
        m1 == PutIf(Truthy(Get(p, "interleak")), m0,
                    "interleakRef", get_route_map(Get(p, "interleak")))
        m2 == PutIf(Truthy(Get(p, "static_route_redistribution")), m1,
                    "staticRouteRedistRef", get_route_map(Get(p, "static_route_redistribution")))
        m3 == PutIf(Truthy(Get(p, "connected_route_redistribution")), m2,
                    "connectedRouteRedistRef", get_route_map(Get(p, "connected_route_redistribution")))
    IN PutIf(Truthy(Get(p, "attached_host_route_redistribution")), m3,
             "attachedHostRouteRedistRef", get_route_map(Get(p, "attached_host_route_redistribution")))

\* lines 558-559
create_advanced_route_map_refs(p, payload) ==
    PutIf(NonEmpty(create_outer_route_maps(p)), payload,
          "advancedRouteMapRefs", create_outer_route_maps(p))

\* lines 582, 591: payload["advancedRouteMapRefs"][...] = ... with no
\* "advancedRouteMapRefs" key in the payload raises KeyError
create_key_error(p) ==
    /\ NonEmpty(bgp(p))
    /\ Truthy(Get(bgp(p), "route_dampening_ipv4")) \/ Truthy(Get(bgp(p), "route_dampening_ipv6"))
    /\ ~NonEmpty(create_outer_route_maps(p))

\* lines 561-598
create_bgp(p, payload) ==
    IF ~NonEmpty(bgp(p)) THEN payload
    ELSE
    LET b == bgp(p)
        p1 == PutIf(Truthy(Get(b, "inbound_route_map")), payload,
                    "importRouteMapRef", get_route_map(Get(b, "inbound_route_map")))
        p2 == Put(p1, "importRouteControl",
                  IF Truthy(Get(p1, "importRouteMapRef")) THEN PyTrue ELSE PyFalse)
        p3 == PutIf(Truthy(Get(b, "outbound_route_map")), p2,
                    "exportRouteMapRef", get_route_map(Get(b, "outbound_route_map")))
        a0 == GetDict(p3, "advancedRouteMapRefs")
        a1 == PutIf(Truthy(Get(b, "route_dampening_ipv4")), a0,
                    "routeDampeningV4Ref", get_route_map(Get(b, "route_dampening_ipv4")))
        a2 == PutIf(Truthy(Get(b, "route_dampening_ipv6")), a1,
                    "routeDampeningV6Ref", get_route_map(Get(b, "route_dampening_ipv6")))
    IN IF "advancedRouteMapRefs" \in DOMAIN p3 THEN Put(p3, "advancedRouteMapRefs", a2) ELSE p3

\* lines 607-612: default_route_leak
create_default_route_leak(o) ==
    LET d1 == PutIf(Truthy(Get(o, "originate_default_route")), EmptyDict,
                    "originateDefaultRoute",
                    ORIGINATE_DEFAULT_ROUTE(Get(o, "originate_default_route")))
    IN PutIf(Get(o, "originate_default_route_always") # NONE, d1,
             "always", Get(o, "originate_default_route_always"))

\* lines 617-629: control
create_control(o) ==
    LET c1 == PutIf(Get(o, "send_redistributed_lsas") # NONE, EmptyDict,
                    "redistribute", Get(o, "send_redistributed_lsas"))
        c2 == PutIf(Get(o, "originate_summary_lsa") # NONE, c1,
                    "originate", Get(o, "originate_summary_lsa"))
    IN PutIf(Get(o, "suppress_forwarding_addr_translated_lsa") # NONE, c2,
             "suppressFA", Get(o, "suppress_forwarding_addr_translated_lsa"))

\* lines 600-632
create_ospf(p, payload) ==
    IF ~NonEmpty(ospf(p)) THEN payload
    ELSE
    LET o == ospf(p)
        area == [cost |-> Get(o, "cost"), id |-> Get(o, "area_id"),
                 areaType |-> Get(o, "area_type")]
        p1 == PutIf(NonEmpty(create_default_route_leak(o)), payload,
                    "defaultRouteLeak", create_default_route_leak(o))
    IN Put(p1, "ospfAreaConfig",
           PutIf(NonEmpty(create_control(o)), area, "control", create_control(o)))

\* lines 502-632: the payload of the new L3Out
create_payload(p, ex, idx) ==
    create_ospf(p,
      create_bgp(p,
        create_advanced_route_map_refs(p,
          create_routing_protocol(p,
            create_scalars(p, ex, idx)))))

\* line 635
create_ops(p, ex, idx) ==
    << Op("add", <<"l3outTemplate", "l3outs", "-">>, create_payload(p, ex, idx)) >>

---------------------------------------------------------------------------
(* main(): update mode (lines 636-883) *)

\* l3out_attrs_path + "/<rel>"  (line 638)
l3out_attrs_path(idx, rel) ==
    <<"l3outTemplate", "l3outs", idx>> \o rel

\* One scalar of lines 640-662: given, and not what is stored
update_scalar(p, ex, idx, value, key) ==
    When(value # NONE /\ Get(ex, key) # value,
         Op("replace", l3out_attrs_path(idx, <<key>>), value))

\* lines 640-662
update_scalars(p, ex, idx) ==
    update_scalar(p, ex, idx, name(p, ex, idx), "name")
    \o update_scalar(p, ex, idx, vrf_ref(p), "vrfRef")
    \o update_scalar(p, ex, idx, Get(p, "description"), "description")
    \o update_scalar(p, ex, idx, Get(p, "l3_domain"), "l3domain")
    \o update_scalar(p, ex, idx, target_dscp(p), "targetDscp")
    \o update_scalar(p, ex, idx, Get(p, "pim"), "pim")

\* lines 664-666
update_routing_protocol(p, ex, idx) ==
    LET rp == routing_protocols(p, ex)
    IN When(rp # NONE /\ rp # "" /\ Get(ex, "routingProtocol") # rp,
            Op("replace", l3out_attrs_path(idx, <<"routingProtocol">>), rp))

\* lines 668-675: the advancedRouteMapRefs container
update_advanced_route_map_refs(p, ex, idx) ==
    When(/\ \/ Get(p, "interleak") # NONE
            \/ Get(p, "static_route_redistribution") # NONE
            \/ Get(p, "connected_route_redistribution") # NONE
            \/ Get(p, "attached_host_route_redistribution") # NONE
         /\ ~NonEmpty(GetDict(ex, "advancedRouteMapRefs")),
         Op("add", l3out_attrs_path(idx, <<"advancedRouteMapRefs">>), EmptyDict))

\* One route map reference: asked for, resolved to a non-empty reference that
\* is not the stored one (lines 679-690 and the like)
update_route_map(p, ex, idx, route_map, container, key) ==
    LET ref == get_route_map(route_map)
    IN When(/\ route_map # NONE
            /\ Truthy(ref)
            /\ Get(container, key) # ref,
            Op("replace", l3out_attrs_path(idx, <<"advancedRouteMapRefs", key>>), ref))

\* lines 679-748
update_outer_route_maps(p, ex, idx) ==
    LET refs == GetDict(ex, "advancedRouteMapRefs")
    IN update_route_map(p, ex, idx, Get(p, "interleak"), refs, "interleakRef")
       \o update_route_map(p, ex, idx, Get(p, "static_route_redistribution"), refs,
                           "staticRouteRedistRef")
       \o update_route_map(p, ex, idx, Get(p, "connected_route_redistribution"), refs,
                           "connectedRouteRedistRef")
       \o update_route_map(p, ex, idx, Get(p, "attached_host_route_redistribution"), refs,
                           "attachedHostRouteRedistRef")

\* lines 753-766: importRouteMapRef and importRouteControl
update_inbound_route_map(p, ex, idx) ==
    LET ref == get_route_map(Get(bgp(p), "inbound_route_map"))
        hit == /\ Get(bgp(p), "inbound_route_map") # NONE
               /\ Truthy(ref)
               /\ Get(ex, "importRouteMapRef") # ref
    IN When(hit, Op("replace", l3out_attrs_path(idx, <<"importRouteMapRef">>), ref))
       \o When(hit, Op("replace", l3out_attrs_path(idx, <<"importRouteControl">>),
                       IF Truthy(ref) THEN PyTrue ELSE PyFalse))

\* lines 768-779: exportRouteMapRef
update_outbound_route_map(p, ex, idx) ==
    LET ref == get_route_map(Get(bgp(p), "outbound_route_map"))
    IN When(/\ Get(bgp(p), "outbound_route_map") # NONE
            /\ Truthy(ref)
            /\ Get(ex, "exportRouteMapRef") # ref,
            Op("replace", l3out_attrs_path(idx, <<"exportRouteMapRef">>), ref))

\* lines 781-809: routeDampeningV4Ref and routeDampeningV6Ref
update_route_dampening(p, ex, idx) ==
    LET refs == GetDict(ex, "advancedRouteMapRefs")
    IN update_route_map(p, ex, idx, Get(bgp(p), "route_dampening_ipv4"), refs,
                        "routeDampeningV4Ref")
       \o update_route_map(p, ex, idx, Get(bgp(p), "route_dampening_ipv6"), refs,
                           "routeDampeningV6Ref")

\* lines 752-809
update_bgp(p, ex, idx) ==
    IF NonEmpty(bgp(p))
    THEN update_inbound_route_map(p, ex, idx)
         \o update_outbound_route_map(p, ex, idx)
         \o update_route_dampening(p, ex, idx)
    ELSE <<>>

\* lines 812-837: defaultRouteLeak
update_default_route_leak(p, ex, idx) ==
    LET leak == GetDict(ex, "defaultRouteLeak")
        originate_default_route ==
            ORIGINATE_DEFAULT_ROUTE(Get(ospf(p), "originate_default_route"))
        originate_default_route_always == Get(ospf(p), "originate_default_route_always")
    IN IF originate_default_route # NONE /\ originate_default_route # ""
       THEN When(~NonEmpty(leak),
                 Op("replace", l3out_attrs_path(idx, <<"defaultRouteLeak">>), EmptyDict))
            \o When(originate_default_route # Get(leak, "originateDefaultRoute"),
                    Op("replace",
                       l3out_attrs_path(idx, <<"defaultRouteLeak", "originateDefaultRoute">>),
                       originate_default_route))
            \o When(/\ originate_default_route_always # NONE
                    /\ originate_default_route_always # Get(leak, "always"),
                    Op("replace",
                       l3out_attrs_path(idx, <<"defaultRouteLeak", "always">>),
                       originate_default_route_always))
       ELSE When(NonEmpty(leak) /\ originate_default_route = "",
                 RemoveOp(l3out_attrs_path(idx, <<"defaultRouteLeak">>)))

\* One field of ospfAreaConfig (lines 843-853): written whenever it differs
update_area_field(p, ex, idx, value, key) ==
    When(value # Get(GetDict(ex, "ospfAreaConfig"), key),
         Op("replace", l3out_attrs_path(idx, <<"ospfAreaConfig", key>>), value))

\* lines 839-853: ospfAreaConfig and its cost, id, areaType
update_ospf_area_config(p, ex, idx) ==
    When(~NonEmpty(GetDict(ex, "ospfAreaConfig")),
         Op("replace", l3out_attrs_path(idx, <<"ospfAreaConfig">>), EmptyDict))
    \o update_area_field(p, ex, idx, Get(ospf(p), "cost"), "cost")
    \o update_area_field(p, ex, idx, Get(ospf(p), "area_id"), "id")
    \o update_area_field(p, ex, idx, Get(ospf(p), "area_type"), "areaType")

\* One flag of ospfAreaConfig/control (lines 865-875)
update_control_flag(p, ex, idx, value, key) ==
    When(/\ value # NONE
         /\ value # Get(GetDict(GetDict(ex, "ospfAreaConfig"), "control"), key),
         Op("replace", l3out_attrs_path(idx, <<"ospfAreaConfig", "control", key>>), value))

\* lines 855-875: ospfAreaConfig/control
update_ospf_control(p, ex, idx) ==
    LET redistribute == Get(ospf(p), "send_redistributed_lsas")
        originate == Get(ospf(p), "originate_summary_lsa")
        suppress_fa == Get(ospf(p), "suppress_forwarding_addr_translated_lsa")
    IN When(/\ redistribute # NONE \/ originate # NONE \/ suppress_fa # NONE
            /\ ~NonEmpty(GetDict(GetDict(ex, "ospfAreaConfig"), "control")),
            Op("replace", l3out_attrs_path(idx, <<"ospfAreaConfig", "control">>), EmptyDict))
       \o update_control_flag(p, ex, idx, redistribute, "redistribute")
       \o update_control_flag(p, ex, idx, originate, "originate")
       \o update_control_flag(p, ex, idx, suppress_fa, "suppressFA")

\* lines 877-880: no ospf this run and an ospfAreaConfig stored
remove_ospf_area_config(p, ex, idx) ==
    When(NonEmpty(GetDict(ex, "ospfAreaConfig")) /\ ~NonEmpty(ospf(p)),
         RemoveOp(l3out_attrs_path(idx, <<"ospfAreaConfig">>)))

\* lines 811-880
update_ospf(p, ex, idx) ==
    IF NonEmpty(ospf(p))
    THEN update_default_route_leak(p, ex, idx)
         \o update_ospf_area_config(p, ex, idx)
         \o update_ospf_control(p, ex, idx)
    ELSE remove_ospf_area_config(p, ex, idx)

\* lines 637-883: update_ops
update_ops(p, ex, idx) ==
    update_scalars(p, ex, idx)
    \o update_routing_protocol(p, ex, idx)
    \o update_advanced_route_map_refs(p, ex, idx)
    \o update_outer_route_maps(p, ex, idx)
    \o update_bgp(p, ex, idx)
    \o update_ospf(p, ex, idx)

---------------------------------------------------------------------------
(* main(): the outcome of one invocation *)

\* A get_route_map call of the outer route maps or of bgp's route control
\* maps fails (create: lines 522-580, update: lines 679-779)
route_control_not_found(p) ==
    \/ route_map_not_found(Get(p, "interleak"))
    \/ route_map_not_found(Get(p, "static_route_redistribution"))
    \/ route_map_not_found(Get(p, "connected_route_redistribution"))
    \/ route_map_not_found(Get(p, "attached_host_route_redistribution"))
    \/ /\ NonEmpty(bgp(p))
       /\ \/ route_map_not_found(Get(bgp(p), "inbound_route_map"))
          \/ route_map_not_found(Get(bgp(p), "outbound_route_map"))

\* A get_route_map call of bgp's dampening maps fails (lines 782-803)
route_dampening_not_found(p) ==
    /\ NonEmpty(bgp(p))
    /\ \/ route_map_not_found(Get(bgp(p), "route_dampening_ipv4"))
       \/ route_map_not_found(Get(bgp(p), "route_dampening_ipv6"))

\* How create mode ends: the right-hand side of lines 583 and 592 is evaluated
\* (and may fail) before the subscript raises KeyError
create_failure(p) ==
    IF route_control_not_found(p) THEN "ReferenceNotFound"
    ELSE IF ~NonEmpty(bgp(p)) THEN ""
    ELSE IF Truthy(Get(bgp(p), "route_dampening_ipv4"))
         THEN IF route_map_not_found(Get(bgp(p), "route_dampening_ipv4"))
              THEN "ReferenceNotFound"
              ELSE IF create_key_error(p) THEN "KeyError"
              ELSE IF route_map_not_found(Get(bgp(p), "route_dampening_ipv6"))
                   THEN "ReferenceNotFound" ELSE ""
    ELSE IF route_map_not_found(Get(bgp(p), "route_dampening_ipv6")) THEN "ReferenceNotFound"
    ELSE IF create_key_error(p) THEN "KeyError"
    ELSE ""

\* An update mode whose dampening lookups do not fail
update_failure_route_control_only(p) ==
    IF route_control_not_found(p) THEN "ReferenceNotFound" ELSE ""

\* How update mode ends
update_failure(p) ==
    IF route_control_not_found(p) \/ route_dampening_not_found(p)
    THEN "ReferenceNotFound" ELSE ""

\* The branch state=present takes (lines 470, 501, 636)
present_mode(p, ex, idx) ==
    IF uuid_not_found(p, ex, idx) THEN "none"
    ELSE IF ~NonEmpty(ex) /\ Truthy(name(p, ex, idx)) THEN "create"
    ELSE IF NonEmpty(ex) THEN "update"
    ELSE "none"

\* lines 469-885: how state=present ends, "" when it reaches line 885
present_failure(p, ex, idx) ==
    LET branch == present_mode(p, ex, idx)
    IN IF uuid_not_found(p, ex, idx) THEN "NotFound"
       ELSE IF NonEmpty(vrf_dict(p)) /\ vrf_not_found(vrf_dict(p)) THEN "ReferenceNotFound"
       ELSE IF pim_vrf_conflict(p) THEN "ValidationConflict"
       ELSE IF branch = "create" THEN create_failure(p)
       ELSE IF branch = "update" THEN update_failure(p)
       ELSE ""

\* lines 467-885: ops of state=present
present_ops(p, ex, idx) ==
    LET branch == present_mode(p, ex, idx)
    IN IF present_failure(p, ex, idx) # "" THEN <<>>
       ELSE IF branch = "create" THEN create_ops(p, ex, idx)
       ELSE IF branch = "update" THEN update_ops(p, ex, idx)
       ELSE <<>>

\* lines 437-438: state query / absent on a template with no L3Out exits at once
early_exit(p, list) == Get(p, "state") \in {"query", "absent"} /\ list = <<>>

\* A state=absent that removes the stored ospfAreaConfig before the L3Out
absent_ops_fieldwise(p, ex, idx) ==
    IF NonEmpty(ex)
    THEN When("ospfAreaConfig" \in DOMAIN ex,
              RemoveOp(<<"l3outTemplate", "l3outs", idx, "ospfAreaConfig">>))
         \o << RemoveOp(<<"l3outTemplate", "l3outs", idx>>) >>
    ELSE <<>>

\* lines 887-890: ops of state=absent
absent_ops(p, ex, idx) ==
    When(NonEmpty(ex),
         RemoveOp(<<"l3outTemplate", "l3outs", idx>>))

\* lines 351-405: AnsibleModule refuses the task: a sub-option declared
\* required=True is missing from a vrf (lines 360-362) or an ospf (lines
\* 375-377) that is given, or required_if (lines 400-404) finds neither of the
\* parameters it asks for
argument_error(p) ==
    \/ /\ "vrf" \in DOMAIN p
       /\ \E k \in {"name", "schema", "template"} : Get(p["vrf"], k) = NONE
    \/ /\ "ospf" \in DOMAIN p
       /\ \E k \in {"area_id", "area_type", "cost"} : Get(p["ospf"], k) = NONE
    \/ /\ Get(p, "state") = "absent"
       /\ {"name", "uuid"} \cap DOMAIN p = {}
    \/ /\ Get(p, "state") = "present"
       /\ \/ {"vrf", "uuid"} \cap DOMAIN p = {}
          \/ {"name", "uuid"} \cap DOMAIN p = {}

\* main(): what the invocation built, up to line 890
main(p, list, ex, idx) ==
    IF argument_error(p)
    THEN [ops |-> <<>>, failure |-> "ArgumentError", mode |-> "none"]
    ELSE IF early_exit(p, list)
    THEN [ops |-> <<>>, failure |-> "", mode |-> "none"]
    ELSE IF Get(p, "state") = "present"
    THEN [ops |-> present_ops(p, ex, idx),
          failure |-> present_failure(p, ex, idx),
          mode |-> present_mode(p, ex, idx)]
    ELSE IF Get(p, "state") = "absent"
    THEN [ops |-> absent_ops(p, ex, idx),
          failure |-> "",
          mode |-> IF NonEmpty(ex) THEN "delete" ELSE "none"]
    ELSE [ops |-> <<>>, failure |-> "", mode |-> "query"]

\* A submission that does not look at check mode
requests_in_check_mode(p, operations) ==
    IF operations # <<>> THEN <<operations>> ELSE <<>>

\* lines 892-894: the PATCH requests sent
requests(p, operations) ==
    IF ~check_mode(p) /\ operations # <<>> THEN <<operations>> ELSE <<>>

---------------------------------------------------------------------------
(* main(): the working copy proposed_payload and the state the run reports *)

RECURSIVE assign(_, _, _)
\* proposed_payload[a][b]... = value
assign(d, rel, value) ==
    IF Len(rel) = 1 THEN Put(d, rel[1], value)
    ELSE Put(d, rel[1], assign(d[rel[1]], Tail(rel), value))

RECURSIVE record(_, _)
\* The assignment to (or del of) proposed_payload that follows each
\* update_ops.append of the operations
record(payload, operations) ==
    IF operations = <<>> THEN payload
    ELSE LET operation == Head(operations)
             rel == SubSeq(operation.path, 4, Len(operation.path))
         IN record(IF operation.op = "remove" THEN Del(payload, rel[1])
                   ELSE assign(payload, rel, operation.value),
                   Tail(operations))

\* lines 677-748: outer_route_maps, the references this run replaced
outer_route_maps(p, ex, idx) ==
    LET changed == update_outer_route_maps(p, ex, idx)
        at(k) == CHOOSE j \in 1..Len(changed) : changed[j].path[5] = k
    IN [k \in {changed[j].path[5] : j \in 1..Len(changed)} |-> changed[at(k)].value]

\* lines 465-880: proposed_payload when update mode reaches sanitize; line 750
\* sets advancedRouteMapRefs to outer_route_maps
proposed_payload(p, ex, idx) ==
    LET p1 == record(ex, update_scalars(p, ex, idx)
                         \o update_routing_protocol(p, ex, idx)
                         \o update_advanced_route_map_refs(p, ex, idx))
        p2 == Put(p1, "advancedRouteMapRefs", outer_route_maps(p, ex, idx))
        p3 == record(p2, update_bgp(p, ex, idx))
    IN record(p3, update_ospf(p, ex, idx))

RECURSIVE deleted(_, _)
\* lines 837, 880: mso.existing after the del that goes with each remove
deleted(ex, operations) ==
    IF operations = <<>> THEN ex
    ELSE deleted(IF Head(operations).op = "remove"
                 THEN Del(ex, Head(operations).path[4]) ELSE ex,
                 Tail(operations))

\* The keys of an L3Out that MSOModule.sanitize takes for references
\* (key.endswith("Ref"))
ReferenceKeys == {"vrfRef", "importRouteMapRef", "exportRouteMapRef"}

\* The keys of an L3Out whose values are dicts, never None
CompoundKeys == {"advancedRouteMapRefs", "defaultRouteLeak", "ospfAreaConfig"}

\* MSOModule.sanitize(updates, collate): mso.proposed, which is mso.existing
\* without its references, updated with the values of updates that are
\* given (and, unless collate, differ from the existing ones)
sanitize(ex, updates, collate) ==
    LET kept == [k \in DOMAIN ex \ ReferenceKeys |-> ex[k]]
        unset == {k \in DOMAIN updates \ CompoundKeys : updates[k] = NONE}
        dropped == {k \in DOMAIN updates :
                      /\ ~collate
                      /\ k \in unset \/ (k \in DOMAIN ex /\ updates[k] = ex[k])}
        added == DOMAIN updates \ (dropped \cup unset)
    IN [k \in ((DOMAIN kept) \ dropped) \cup added |->
          IF k \in added THEN updates[k] ELSE kept[k]]

\* lines 439-440, 463: mso.existing of state=query: the l3outs list when
\* neither name nor uuid is given, else the L3Out found ({} when none)
query_existing(p, list, ex) ==
    IF ~(Truthy(Get(p, "name")) \/ Truthy(Get(p, "uuid"))) THEN List(list) ELSE Dict(ex)

\* mso.proposed as MSOModule makes it, before any sanitize
proposed == EmptyDict

\* mso.existing when main() reaches exit_json (lines 438, 885, 890, 896):
\* the early exit of line 438 reports the dict MSOModule starts with, and with
\* neither the create nor the update branch taken line 885 reports
\* mso.proposed as it was made
exit_existing(p, list, ex, idx) ==
    IF early_exit(p, list) THEN Dict(EmptyDict)
    ELSE IF Get(p, "state") = "present"
    THEN IF present_mode(p, ex, idx) = "create"
         THEN Dict(sanitize(EmptyDict, create_payload(p, ex, idx), FALSE))
         ELSE IF present_mode(p, ex, idx) = "update"
         THEN Dict(sanitize(deleted(ex, update_ops(p, ex, idx)),
                            proposed_payload(p, ex, idx), TRUE))
         ELSE Dict(proposed)
    ELSE IF Get(p, "state") = "absent" THEN Dict(EmptyDict)
    ELSE query_existing(p, list, ex)

---------------------------------------------------------------------------
(* NDO: applying a PATCH to the template *)

\* The uuid NDO assigns to a new L3Out
new_uuid(payload) == "uuid_of_" \o payload.name

\* The position "{0}".format(index) names
position(segment, list) ==
    LET hits == {i \in 1..Len(list) : ToString(i - 1) = segment}
    IN IF hits = {} THEN 0 ELSE Min(hits)

RECURSIVE path_exists(_, _)
\* Every container on the way to the last segment of rel is there
path_exists(d, rel) ==
    \/ Len(rel) <= 1
    \/ /\ rel[1] \in DOMAIN d
       /\ path_exists(d[rel[1]], Tail(rel))

RECURSIVE set_at(_, _, _)
\* add / replace at a path inside one L3Out
set_at(d, rel, value) ==
    IF Len(rel) = 1 THEN Put(d, rel[1], value)
    ELSE Put(d, rel[1], set_at(d[rel[1]], Tail(rel), value))

RECURSIVE remove_at(_, _)
\* remove at a path inside one L3Out
remove_at(d, rel) ==
    IF Len(rel) = 1 THEN Del(d, rel[1])
    ELSE Put(d, rel[1], remove_at(d[rel[1]], Tail(rel)))

remove_item(list, i) == [j \in 1..(Len(list) - 1) |-> IF j < i THEN list[j] ELSE list[j + 1]]

\* NDO accepts the operation on this list
patch_accepted(list, operation) ==
    LET path == operation.path
        i == position(path[3], list)
    IN IF Len(path) = 3
       THEN (operation.op = "add" /\ path[3] = "-") \/ (operation.op = "remove" /\ i # 0)
       ELSE i # 0 /\ path_exists(list[i], SubSeq(path, 4, Len(path)))

\* One accepted operation applied
apply_op(list, operation) ==
    LET path == operation.path
        i == position(path[3], list)
        rel == SubSeq(path, 4, Len(path))
    IN IF Len(path) = 3
       THEN IF operation.op = "add"
            THEN Append(list, Put(operation.value, "uuid", new_uuid(operation.value)))
            ELSE remove_item(list, i)
       ELSE [list EXCEPT ![i] =
                IF operation.op = "remove" THEN remove_at(list[i], rel)
                ELSE set_at(list[i], rel, operation.value)]

RECURSIVE patch(_, _)
\* The operations applied in order, up to the first one that is not accepted
patch(list, operations) ==
    IF operations = <<>> THEN [rejected |-> FALSE, l3outs |-> list]
    ELSE IF ~patch_accepted(list, Head(operations)) THEN [rejected |-> TRUE, l3outs |-> list]
    ELSE patch(apply_op(list, Head(operations)), Tail(operations))

\* Some operation of the list, applied in order, is not accepted
patch_rejected(list, operations) == patch(list, operations).rejected

\* The operations applied in order
apply_patch(list, operations) == patch(list, operations).l3outs

---------------------------------------------------------------------------
(* The inputs of an invocation *)

\* An optional parameter or sub-option with a value: <<parameter, sub-option, value>>.
\* The value "{}" of bgp / ospf is the dict given with no sub-option, "dict"
\* an ospf with the required sub-options and no optional one.
Atoms ==
    {<<"description", "", v>> : v \in {"", "b"}}
    \cup {<<"l3_domain", "", "dom2">>, <<"target_dscp", "", "expedited_forwarding">>}
    \cup {<<"pim", "", v>> : v \in {PyTrue, PyFalse}}
    \cup {<<"vrf", "", v>> : v \in {"VRF1", "VRF2", "VRF_x"}}
    \cup {<<"name", "", v>> : v \in {"", "l3out_2"}}
    \cup {<<"check_mode", "", PyTrue>>}
    \cup {<<"interleak", "", v>> : v \in {"", "rm1", "rm_x"}}
    \cup {<<"static_route_redistribution", "", v>> : v \in {"", "rm2"}}
    \cup {<<"connected_route_redistribution", "", "rm1">>,
          <<"attached_host_route_redistribution", "", "rm1">>}
    \cup {<<"bgp", "", "{}">>}
    \cup {<<"bgp", "inbound_route_map", v>> : v \in {"", "rm2"}}
    \cup {<<"bgp", "outbound_route_map", v>> : v \in {"", "rm2"}}
    \cup {<<"bgp", "route_dampening_ipv4", v>> : v \in {"", "rm1"}}
    \cup {<<"bgp", "route_dampening_ipv6", v>> : v \in {"rm2", "rm_x"}}
    \cup {<<"ospf", "", v>> : v \in {"{}", "dict"}}
    \cup {<<"ospf", "cost", "2">>}
    \cup {<<"ospf", "originate_default_route", v>> : v \in {"", "only", "in_addition"}}
    \cup {<<"ospf", "originate_default_route_always", v>> : v \in {PyTrue, PyFalse}}
    \cup {<<"ospf", "send_redistributed_lsas", PyFalse>>,
          <<"ospf", "originate_summary_lsa", PyTrue>>,
          <<"ospf", "suppress_forwarding_addr_translated_lsa", PyTrue>>}

RECURSIVE AtMost(_)
\* The sets of at most k atoms
AtMost(k) ==
    IF k = 0 THEN {{}}
    ELSE AtMost(k - 1) \cup {A \cup {a} : A \in AtMost(k - 1), a \in Atoms}

\* One value per parameter or sub-option; "{}" and "dict" stand alone
Coherent(A) ==
    \A a \in A : \A b \in A :
        /\ (a[1] = b[1] /\ a[2] = b[2]) => a = b
        /\ (a[1] = b[1] /\ a[2] = "" /\ a[1] \in {"bgp", "ospf"}) => a = b

Supplied == {A \in AtMost(MaxSupplied) : Coherent(A)}

ValueOf(A, param, sub, default) ==
    IF \E a \in A : a[1] = param /\ a[2] = sub
    THEN (CHOOSE a \in A : a[1] = param /\ a[2] = sub)[3]
    ELSE default

\* The vrf parameter naming the VRF
VrfParam(vrf_name) == [name |-> vrf_name, schema |-> "schema1", template |-> "template1"]

\* The bgp parameter the atoms describe, as module.params holds it: every
\* sub-option of lines 388-391 is a key, None when the task does not set it
\* (all of them for bgp: {})
BgpParam(A) ==
    [k \in {"inbound_route_map", "outbound_route_map",
            "route_dampening_ipv4", "route_dampening_ipv6"} |-> ValueOf(A, "bgp", k, NONE)]

\* The ospf argument the atoms describe: given as {} it has no sub-option,
\* else the required sub-options are set
OspfParam(A) ==
    IF <<"ospf", "", "{}">> \in A THEN EmptyDict
    ELSE [k \in {"cost", "area_id", "area_type", "send_redistributed_lsas",
                 "originate_summary_lsa", "suppress_forwarding_addr_translated_lsa",
                 "originate_default_route", "originate_default_route_always"} |->
             ValueOf(A, "ospf", k,
                     CASE k = "cost" -> "1"
                       [] k = "area_id" -> "0.0.0.1"
                       [] k = "area_type" -> "regular"
                       [] OTHER -> NONE)]

\* The arguments of a task, for the identifier and the atoms: a parameter not
\* given is not a key (module.params.get gives None); argument_error says
\* whether main() takes them
Params(state, ident, A) ==
    LET given == {a[1] : a \in A} \ {"vrf", "bgp", "ospf"}
        scalars == [k \in given |-> ValueOf(A, k, "", NONE)]
        vrf == IF \E a \in A : a[1] = "vrf"
               THEN [vrf |-> VrfParam(ValueOf(A, "vrf", "", NONE))] ELSE EmptyDict
        b == IF \E a \in A : a[1] = "bgp" THEN [bgp |-> BgpParam(A)] ELSE EmptyDict
        o == IF \E a \in A : a[1] = "ospf" THEN [ospf |-> OspfParam(A)] ELSE EmptyDict
    IN [state |-> state] @@ scalars @@ vrf @@ b @@ o @@ ident

\* state=present by uuid: every other parameter is optional
PresentByUuid == {Params("present", [uuid |-> "uuid_1"], A) : A \in Supplied}

\* state=present by name: required_if asks for the vrf as well
PresentByName ==
    {Params("present", [name |-> "l3out_1"], A \cup {<<"vrf", "", "VRF1">>}) :
        A \in {B \in Supplied : \A a \in B : a[1] \notin {"name", "vrf"}}}
    \cup
    {Params("present", [name |-> "l3out_1"], A) :
        A \in {B \in Supplied : /\ \E v \in {"VRF2", "VRF_x"} : <<"vrf", "", v>> \in B
                                /\ \A a \in B : a[1] # "name"}}

PresentInputs == PresentByUuid \cup PresentByName

Identifiers ==
    {[uuid |-> "uuid_1"], [name |-> "l3out_1"], [uuid |-> "uuid_9"], [name |-> "l3out_9"],
     [uuid |-> "uuid_1", name |-> "l3out_0"]}

CheckModes == {EmptyDict, [check_mode |-> PyTrue]}

AbsentInputs == {[state |-> "absent"] @@ i @@ c : i \in Identifiers, c \in CheckModes}

QueryInputs == {[state |-> "query"] @@ i @@ c : i \in Identifiers \cup {EmptyDict}, c \in CheckModes}

---------------------------------------------------------------------------
(* The templates an invocation may find *)

Bare == [name |-> "l3out_1", uuid |-> "uuid_1", vrfRef |-> "vrf1_uuid"]

Other == [name |-> "l3out_0", uuid |-> "uuid_0", vrfRef |-> "vrf1_uuid", description |-> "a"]

Scalars == [description |-> "a", l3domain |-> "dom1", targetDscp |-> "af11", pim |-> PyTrue]

BgpStored ==
    [importRouteMapRef |-> "rm1_uuid", importRouteControl |-> PyTrue,
     exportRouteMapRef |-> "rm1_uuid",
     advancedRouteMapRefs |-> [interleakRef |-> "rm1_uuid", routeDampeningV4Ref |-> "rm1_uuid"]]

OspfArea == [cost |-> "1", id |-> "0.0.0.1", areaType |-> "regular"]

OspfStored ==
    [ospfAreaConfig |-> Put(OspfArea, "control", [redistribute |-> PyTrue, originate |-> PyTrue]),
     defaultRouteLeak |-> [originateDefaultRoute |-> "only", always |-> PyTrue]]

\* The L3Out "l3out_1" as NDO may hold it
StoredL3outs ==
    << Bare,
       Scalars @@ Bare,
       [advancedRouteMapRefs |-> EmptyDict] @@ Bare,
       [routingProtocol |-> "bgp"] @@ BgpStored @@ Bare,
       [routingProtocol |-> "ospf", ospfAreaConfig |-> OspfArea] @@ Bare,
       [routingProtocol |-> "ospf", ospfAreaConfig |-> OspfArea,
        defaultRouteLeak |-> [always |-> PyTrue]] @@ Scalars @@ Bare,
       [routingProtocol |-> "ospf"] @@ OspfStored @@ Bare,
       [routingProtocol |-> "bgpOspf"] @@ OspfStored @@ BgpStored @@ Scalars @@ Bare,
       [vrfRef |-> "vrf2_uuid"] @@ Bare >>

\* The stored forms that are also found behind another L3Out: the barest and
\* the fullest
Behind == {1, 8}

\* The l3outs lists: with or without another L3Out in front, with or without "l3out_1"
Templates ==
    {<<>>, <<Other>>}
    \cup {<<StoredL3outs[i]>> : i \in 1..Len(StoredL3outs)}
    \cup {<<Other, StoredL3outs[i]>> : i \in Behind}

---------------------------------------------------------------------------
(* The state machine *)

Init ==
    /\ l3outs \in Templates
    /\ params = EmptyDict
    /\ snapshot = <<>>
    /\ ops = <<>>
    /\ failure = ""
    /\ sent = <<>>
    /\ mode = "none"
    /\ phase = "idle"

\* main() up to line 890 on the task arguments p: the argument check, the
\* fetch of the template and the operation list built on what was fetched.
\* A run with a PATCH to send stops at `pending`, any other run ends at `done`.
Build(p, pending, done) ==
    \E ex \in {existing(p, l3outs)} :
    \E idx \in {l3out_object_index(p, l3outs)} :
    \E r \in {main(p, l3outs, ex, idx)} :
       /\ params' = p
       /\ snapshot' = IF argument_error(p) THEN <<>> ELSE l3outs
       /\ ops' = r.ops
       /\ mode' = r.mode
       /\ failure' = r.failure
       /\ sent' = <<>>
       /\ phase' = IF requests(p, r.ops) # <<>> THEN pending ELSE done
       /\ UNCHANGED l3outs

Present == phase = "idle" /\ \E p \in PresentInputs : Build(p, "built", "ran")

Absent == phase = "idle" /\ \E p \in AbsentInputs : Build(p, "built", "ran")

Query == phase = "idle" /\ \E p \in QueryInputs : Build(p, "built", "ran")

\* A state=present task that ended undisturbed, without failure and with its
\* operations sent, is run again on what it left
Rerun ==
    /\ phase = "ran" /\ Get(params, "state") = "present"
    /\ failure = "" /\ (ops = <<>> \/ sent # <<>>)
    /\ Build(params, "rebuilt", "reran")

\* lines 892-896: the PATCH of the operation list and NDO's answer to it, on
\* the template as NDO holds it by then
Send ==
    /\ phase \in {"built", "rebuilt", "overtaken"}
    /\ \E answer \in {patch(l3outs, ops)} :
          /\ sent' = requests(params, ops)
          /\ failure' = IF answer.rejected THEN "TransportError" ELSE failure
          /\ l3outs' = IF answer.rejected THEN l3outs ELSE answer.l3outs
    /\ phase' = CASE phase = "built" -> "ran"
                  [] phase = "rebuilt" -> "reran"
                  [] phase = "overtaken" -> "raced"
    /\ UNCHANGED <<params, snapshot, ops, mode>>

\* An L3Out another task adds to the template
Added == [name |-> "l3out_5", vrfRef |-> "vrf1_uuid"]

\* The path of the template's L3Outs in a PATCH body
L3outsPath == <<"l3outTemplate", "l3outs">>

\* The requests an mso_rest task makes on the template: a GET, and a PATCH
\* whose content removes the second L3Out and adds another
RestRequests ==
    {[method |-> "get", content |-> <<>>],
     [method |-> "patch", content |-> << RemoveOp(L3outsPath \o <<"1">>),
                                         Op("add", L3outsPath \o <<"-">>, Added) >>]}

\* mso_rest.main() on the template, between the fetch and the PATCH of an
\* ndo_l3out_template run: a GET changes nothing, and a request NDO refuses
\* fails the mso_rest task and changes nothing
mso_rest ==
    /\ phase = "built"
    /\ \E request \in RestRequests :
       \E answer \in {patch(l3outs, request.content)} :
          /\ l3outs' = IF request.method = "get" \/ answer.rejected
                       THEN l3outs ELSE answer.l3outs
          /\ phase' = IF l3outs' # l3outs THEN "overtaken" ELSE phase
    /\ UNCHANGED <<params, snapshot, ops, failure, sent, mode>>

Next == Present \/ Absent \/ Query \/ Rerun \/ Send \/ mso_rest

Spec == Init /\ [][Next]_vars

---------------------------------------------------------------------------
(* What the properties below speak about: the last invocation *)

\* The last invocation has ended
Ended == phase \in {"ran", "raced", "reran"}

\* The stored L3Out the last invocation found in the template it fetched
Stored == existing(params, snapshot)

\* The path of an attribute of that L3Out
AttrPath(rel) == <<"l3outTemplate", "l3outs", l3out_object_index(params, snapshot)>> \o rel

\* The positions of ops that address exactly this path
OpsAt(path) == {j \in 1..Len(ops) : ops[j].path = path}

\* The positions of ops that address this path or a path under it
OpsUnder(path) ==
    {j \in 1..Len(ops) : Len(ops[j].path) >= Len(path)
                         /\ SubSeq(ops[j].path, 1, Len(path)) = path}

\* The run has ended; state=present took the update branch and built its
\* operation list
Updated == Ended /\ mode = "update" /\ failure \in {"", "TransportError"}

\* The run has ended; state=present took the create branch and built its
\* operation list
Created == Ended /\ mode = "create" /\ failure \in {"", "TransportError"}

\* bgp / ospf / vrf was given this run with a sub-option set
GivenNonEmpty(k) ==
    k \in DOMAIN params /\ \E sub \in DOMAIN params[k] : params[k][sub] # NONE

\* bgp / ospf was given this run as {}: with no sub-option set
GivenEmpty(k) ==
    k \in DOMAIN params /\ \A sub \in DOMAIN params[k] : params[k][sub] = NONE

\* The run names its L3Out and, besides, gives exactly the parameters in K;
\* a name or vrf given along with it is the stored one
GivesOnly(K) ==
    /\ DOMAIN params \ {"state", "uuid", "name", "vrf", "check_mode"} = K
    /\ "name" \in DOMAIN params => params["name"] = Get(Stored, "name")
    /\ "vrf" \in DOMAIN params => vrf_ref(params) = Get(Stored, "vrfRef")

\* The routing protocol this run's bgp / ospf inputs alone stand for
DerivedProtocol ==
    IF GivenNonEmpty("bgp") /\ GivenNonEmpty("ospf") THEN "bgpOspf"
    ELSE IF GivenNonEmpty("bgp") THEN "bgp"
    ELSE IF GivenNonEmpty("ospf") THEN "ospf"
    ELSE NONE

---------------------------------------------------------------------------
(* Properties *)

\* C1: idempotence of state=present. When a run has ended without failure and
\* its operation list (if any) has been applied to the template, the same
\* task run again on the result builds an empty operation list.
C1_Idempotent ==
    [][(/\ phase = "ran" /\ phase' \in {"rebuilt", "reran"}
        /\ Get(params, "state") = "present"
        /\ failure = ""
        /\ ops = <<>> \/ sent # <<>>)
       => ops' = <<>>]_vars

\* C2: in update mode a run that does not give ospf at all emits no operation
\* at or under the L3Out's /ospfAreaConfig path.
C2_OspfAbsentUntouched ==
    (Updated /\ "ospf" \notin DOMAIN params) => OpsUnder(AttrPath(<<"ospfAreaConfig">>)) = {}

\* C3: in update mode a run that gives only the identifier and a description
\* that differs from the stored one builds exactly one operation: replace at
\* /l3outTemplate/l3outs/i/description with the new value.
C3_DescriptionOnly ==
    (/\ Updated
     /\ GivesOnly({"description"})
     /\ params["description"] # Get(Stored, "description"))
    => ops = << Op("replace", AttrPath(<<"description">>), params["description"]) >>

\* The template the last task started on: a task the argument check refuses
\* fetches nothing and leaves the template as it was
Started == IF argument_error(params) THEN l3outs ELSE snapshot

\* C4: a state=present task that names an L3Out of the template and gives
\* ospf as {} and nothing else that differs runs in update mode, and its
\* operation list is exactly [remove /l3outTemplate/l3outs/i/ospfAreaConfig]
\* when the L3Out has an ospfAreaConfig, and empty when it has none.
C4_OspfEmptyRemoves ==
    LET l3out == existing(params, Started)
        i == l3out_object_index(params, Started)
    IN (/\ Ended /\ Get(params, "state") = "present"
        /\ GivenEmpty("ospf") /\ GivesOnly({"ospf"}) /\ NonEmpty(l3out))
       => /\ mode = "update" /\ failure = ""
          /\ ops = IF "ospfAreaConfig" \in DOMAIN l3out
                   THEN << RemoveOp(<<"l3outTemplate", "l3outs", i, "ospfAreaConfig">>) >>
                   ELSE << >>

\* The BGP settings the L3Out holds, as attribute paths
BgpSettings ==
    {<<k>> : k \in {"importRouteMapRef", "importRouteControl", "exportRouteMapRef"}
                   \cap DOMAIN Stored}
    \cup {<<"advancedRouteMapRefs", k>> :
             k \in {"routeDampeningV4Ref", "routeDampeningV6Ref"}
                   \cap DOMAIN GetDict(Stored, "advancedRouteMapRefs")}

\* C5: in update mode bgp given as {} clears the BGP configuration: when the
\* L3Out holds any BGP setting, every one of them is removed or cleared by an
\* operation at its path.
C5_BgpEmptyClears ==
    (Updated /\ GivenEmpty("bgp"))
    => \A setting \in BgpSettings : OpsAt(AttrPath(setting)) # {}

\* The string sub-options of bgp and the attribute each one sets
BgpSubOptions ==
    {<<"inbound_route_map", <<"importRouteMapRef">> >>,
     <<"outbound_route_map", <<"exportRouteMapRef">> >>,
     <<"route_dampening_ipv4", <<"advancedRouteMapRefs", "routeDampeningV4Ref">> >>,
     <<"route_dampening_ipv6", <<"advancedRouteMapRefs", "routeDampeningV6Ref">> >>}

\* C6: in update mode an explicit empty string for a string sub-option of bgp
\* whose attribute is set on the L3Out emits an operation that clears that
\* attribute (an operation at its path).
C6_BgpEmptyStringClears ==
    (Updated /\ GivenNonEmpty("bgp"))
    => \A o \in BgpSubOptions :
          (Get(params["bgp"], o[1]) = "" /\ o[2] \in BgpSettings)
          => OpsAt(AttrPath(o[2])) # {}

\* C7: in update mode ospf.originate_default_route given as "" never removes
\* or changes the stored defaultRouteLeak/always, and emits nothing under
\* /defaultRouteLeak when the L3Out has no defaultRouteLeak.
C7_ClearKeepsAlways ==
    (Updated /\ GivenNonEmpty("ospf")
     /\ Get(params["ospf"], "originate_default_route") = "")
    => IF "defaultRouteLeak" \in DOMAIN Stored
       THEN "always" \in DOMAIN Stored["defaultRouteLeak"]
            => /\ OpsAt(AttrPath(<<"defaultRouteLeak">>)) = {}
               /\ OpsAt(AttrPath(<<"defaultRouteLeak", "always">>)) = {}
       ELSE OpsUnder(AttrPath(<<"defaultRouteLeak">>)) = {}

\* The compound sub-structures, as attribute paths
Containers ==
    {<<"advancedRouteMapRefs">>, <<"defaultRouteLeak">>, <<"ospfAreaConfig">>,
     <<"ospfAreaConfig", "control">>}

RECURSIVE HasPath(_, _)
\* The dict holds something at the path
HasPath(d, rel) ==
    \/ rel = <<>>
    \/ rel[1] \in DOMAIN d /\ HasPath(d[rel[1]], Tail(rel))

\* C8: in every update-mode operation list, an operation that writes a child
\* of a compound sub-structure the snapshot does not hold comes after an
\* operation that creates the sub-structure as an empty container.
C8_ContainerBeforeChild ==
    Updated =>
    \A c \in Containers : \A j \in OpsUnder(AttrPath(c)) :
        (/\ ops[j].path # AttrPath(c)
         /\ ops[j].op # "remove"
         /\ ~HasPath(Stored, c))
        => \E i \in OpsAt(AttrPath(c)) :
              i < j /\ ops[i].op # "remove" /\ ops[i].value = EmptyDict

\* C9: in update mode an operation at /routingProtocol is emitted exactly when
\* bgp or ospf is given non-empty this run and the value derived from this
\* run's inputs alone differs from the stored one; it is one replace carrying
\* the derived value, never the empty string.
C9_RoutingProtocolUpdate ==
    Updated =>
    LET path == AttrPath(<<"routingProtocol">>)
        at == OpsAt(path)
        derived == DerivedProtocol
    IN /\ at # {} <=> (derived # NONE /\ derived # Get(Stored, "routingProtocol"))
       /\ \A j \in at : ops[j] = Op("replace", path, derived)
       /\ Cardinality(at) <= 1

\* C10: in create mode the payload holds routingProtocol exactly when bgp or
\* ospf was given non-empty, and then with the value 'bgp', 'ospf' or
\* 'bgpOspf' that says which were given.
C10_RoutingProtocolCreate ==
    Created =>
    /\ Len(ops) = 1
    /\ "routingProtocol" \in DOMAIN ops[1].value <=> DerivedProtocol # NONE
    /\ "routingProtocol" \in DOMAIN ops[1].value
          => ops[1].value["routingProtocol"] = DerivedProtocol

\* The run has ended; it was state=present and passed the argument check
RanPresent ==
    Ended /\ Get(params, "state") = "present" /\ failure # "ArgumentError"

\* The names the tenant's route maps / VRFs have
RouteMapNames == {route_map_objects[i].name : i \in 1..Len(route_map_objects)}

VrfNames == {vrf_objects[i].name : i \in 1..Len(vrf_objects)}

\* A route-map name or the VRF given this run resolves to nothing
UnresolvedReference ==
    \/ \E k \in {"interleak", "static_route_redistribution",
                 "connected_route_redistribution", "attached_host_route_redistribution"} :
          Get(params, k) \notin {NONE, ""} \cup RouteMapNames
    \/ /\ GivenNonEmpty("bgp")
       /\ \E k \in DOMAIN params["bgp"] : params["bgp"][k] \notin {NONE, ""} \cup RouteMapNames
    \/ GivenNonEmpty("vrf") /\ params["vrf"].name \notin VrfNames

\* C11: a state=present run in which a route-map name or the VRF given does
\* not resolve ends in failure, returns no operation list and sends no PATCH.
C11_ResolutionFailureAborts ==
    (RanPresent /\ UnresolvedReference)
    => failure \notin {"", "TransportError"} /\ ops = <<>> /\ sent = <<>>

\* C11 witness: an update whose description differs from the stored one (an
\* operation already decided) fails on the interleak route map.
C11_Witness ==
    /\ RanPresent /\ mode = "update"
    /\ Get(params, "description") = "b" /\ Get(Stored, "description") = "a"
    /\ Get(params, "interleak") = "rm_x"
    /\ failure = "ReferenceNotFound" /\ ops = <<>> /\ sent = <<>>

\* The VRFs the L3Out of the run refers to: the one given this run, else the
\* one stored on the L3Out
ReferencedVrfs ==
    {i \in 1..Len(vrf_objects) :
        IF GivenNonEmpty("vrf") THEN vrf_objects[i].name = params["vrf"].name
        ELSE vrf_objects[i].uuid = Get(Stored, "vrfRef")}

\* C12: a state=present run (create or update) that asks for pim=true while
\* the VRF the L3Out refers to, given this run or stored, has l3MCast false
\* fails with a validation error, builds no operation and sends no PATCH.
C12_PimNeedsMulticast ==
    (/\ RanPresent /\ mode \in {"create", "update"}
     /\ Get(params, "pim") = PyTrue
     /\ \E i \in ReferencedVrfs : vrf_objects[i].l3MCast = PyFalse)
    => failure = "ValidationConflict" /\ ops = <<>> /\ sent = <<>>

\* The run gave a uuid that no L3Out of the fetched template has
UuidMatchesNothing ==
    /\ Truthy(Get(params, "uuid"))
    /\ \A i \in 1..Len(snapshot) : Get(snapshot[i], "uuid") # params["uuid"]

\* C13: a state=present run whose uuid matches no L3Out of the template fails
\* with a not-found error, builds no operation, sends no PATCH and never
\* takes the create branch, a name given or not.
C13_UuidNotFoundFails ==
    (RanPresent /\ UuidMatchesNothing)
    => failure = "NotFound" /\ mode # "create" /\ ops = <<>> /\ sent = <<>>

\* C13 witness: a uuid that matches nothing, given along with a name and a
\* VRF, failed on a template that holds another L3Out.
C13_Witness ==
    /\ RanPresent /\ UuidMatchesNothing
    /\ Truthy(Get(params, "name")) /\ snapshot # <<>>
    /\ failure = "NotFound" /\ sent = <<>>

\* C14: within one invocation a PATCH is sent exactly when the final operation
\* list is non-empty and the run is not in check mode; there is at most one
\* PATCH and it carries the whole operation list in its order.
C14_PatchIffOps ==
    Ended
    => sent = IF ops # <<>> /\ Get(params, "check_mode") # PyTrue THEN <<ops>> ELSE <<>>

\* C14 witness: a check-mode run built operations and sent nothing.
C14_Witness ==
    /\ Ended /\ Get(params, "check_mode") = PyTrue
    /\ ops # <<>> /\ sent = <<>>

\* The positions of the L3Outs the identifier of the run matches: by uuid
\* when one is given, else by name
IdentifierMatches ==
    {i \in 1..Len(snapshot) :
        IF Truthy(Get(params, "uuid")) THEN Get(snapshot[i], "uuid") = params["uuid"]
        ELSE Get(snapshot[i], "name") = Get(params, "name")}

\* C15: with state=absent, an identifier that matches the L3Out at position i
\* gives exactly [remove /l3outTemplate/l3outs/i]; when nothing matches or
\* the template holds no L3Out the operation list is empty, no PATCH is sent
\* and the run does not fail.
C15_AbsentRemoves ==
    (Ended /\ Get(params, "state") = "absent")
    => /\ failure = ""
       /\ IF IdentifierMatches # {}
          THEN ops = << RemoveOp(<<"l3outTemplate", "l3outs",
                                   ToString(Min(IdentifierMatches) - 1)>>) >>
          ELSE ops = <<>> /\ sent = <<>>

\* C15 witness: uuid and name given, naming different L3Outs; the one with
\* the uuid, at position 1, was removed.
C15_Witness ==
    /\ Ended /\ Get(params, "state") = "absent"
    /\ Get(params, "uuid") = "uuid_1" /\ Get(params, "name") = "l3out_0"
    /\ Len(snapshot) = 2
    /\ ops = << RemoveOp(<<"l3outTemplate", "l3outs", "1">>) >>

\* The top-level scalar parameters and the payload key of each
ScalarKeys ==
    {<<"description", "description">>, <<"l3_domain", "l3domain">>,
     <<"target_dscp", "targetDscp">>, <<"pim", "pim">>}

\* C16: in create mode the operation list is exactly one add at
\* /l3outTemplate/l3outs/- whose payload holds name, vrfRef and a key for
\* each scalar given this run, and no key for a scalar that was not given.
C16_CreateSparsePayload ==
    Created =>
    /\ Len(ops) = 1
    /\ ops[1].op = "add" /\ ops[1].path = <<"l3outTemplate", "l3outs", "-">>
    /\ {"name", "vrfRef"} \subseteq DOMAIN ops[1].value
    /\ \A k \in ScalarKeys : k[2] \in DOMAIN ops[1].value <=> k[1] \in DOMAIN params
    /\ DOMAIN params \subseteq {"state", "name", "vrf", "check_mode"}
          => DOMAIN ops[1].value = {"name", "vrfRef"}

\* The payload of the add a create run built
Payload == ops[1].value

\* The route maps given this run that belong under advancedRouteMapRefs
AdvancedChildGiven ==
    \/ \E k \in {"interleak", "static_route_redistribution",
                 "connected_route_redistribution", "attached_host_route_redistribution"} :
          Truthy(Get(params, k))
    \/ /\ GivenNonEmpty("bgp")
       /\ \E k \in {"route_dampening_ipv4", "route_dampening_ipv6"} :
             Truthy(Get(params["bgp"], k))

\* Only dampening maps were given for advancedRouteMapRefs
DampeningOnlyGiven ==
    /\ AdvancedChildGiven
    /\ \A k \in {"interleak", "static_route_redistribution",
                 "connected_route_redistribution", "attached_host_route_redistribution"} :
          k \notin DOMAIN params

\* The dampening keys the bgp given this run asks for
DampeningKeysGiven ==
    {k[2] : k \in {c \in {<<"route_dampening_ipv4", "routeDampeningV4Ref">>,
                          <<"route_dampening_ipv6", "routeDampeningV6Ref">>} :
                      Truthy(Get(params["bgp"], c[1]))}}

\* C17: in create mode, for every combination of inputs that resolve, the
\* run completes and its payload holds each compound sub-structure exactly
\* when one of its children was given; with only dampening maps given,
\* advancedRouteMapRefs holds exactly the dampening references.
C17_CreateCompoundIffChildren ==
    (RanPresent /\ mode = "create" /\ ~UnresolvedReference /\ failure # "ValidationConflict")
    => /\ failure = ""
       /\ Len(ops) = 1
       /\ "advancedRouteMapRefs" \in DOMAIN Payload <=> AdvancedChildGiven
       /\ DampeningOnlyGiven
             => DOMAIN Payload["advancedRouteMapRefs"] = DampeningKeysGiven
       /\ "ospfAreaConfig" \in DOMAIN Payload <=> GivenNonEmpty("ospf")
       /\ "defaultRouteLeak" \in DOMAIN Payload
             <=> /\ GivenNonEmpty("ospf")
                 /\ \/ Truthy(Get(params["ospf"], "originate_default_route"))
                    \/ Get(params["ospf"], "originate_default_route_always") # NONE
       /\ HasPath(Payload, <<"ospfAreaConfig", "control">>)
             <=> /\ GivenNonEmpty("ospf")
                 /\ \E k \in {"send_redistributed_lsas", "originate_summary_lsa",
                              "suppress_forwarding_addr_translated_lsa"} :
                       Get(params["ospf"], k) # NONE

\* The vrfRef the VRF given this run stands for
GivenVrfRef ==
    IF GivenNonEmpty("vrf")
    THEN LET hits == {i \in 1..Len(vrf_objects) : vrf_objects[i].name = params["vrf"].name}
         IN IF hits = {} THEN NONE ELSE vrf_objects[Min(hits)].uuid
    ELSE NONE

\* The top-level scalar fields and the value given this run for each
ScalarFields ==
    {<<"name", Get(params, "name")>>,
     <<"vrfRef", GivenVrfRef>>,
     <<"description", Get(params, "description")>>,
     <<"l3domain", Get(params, "l3_domain")>>,
     <<"targetDscp", TARGET_DSCP_MAP(Get(params, "target_dscp"))>>,
     <<"pim", Get(params, "pim")>>}

\* C18: in update mode an operation at the path of a top-level scalar field
\* is emitted exactly when a value was given for it this run (an empty
\* string or false included) and differs from the stored one; it is then one
\* replace carrying the value given.
C18_ScalarUpdate ==
    Updated =>
    LET l3out == AttrPath(<<>>)
        stored == Stored
    IN \A f \in ScalarFields :
        LET path == l3out \o <<f[1]>>
            at == OpsAt(path)
        IN /\ at # {} <=> (f[2] # NONE /\ f[2] # Get(stored, f[1]))
           /\ \A j \in at : ops[j] = Op("replace", path, f[2])
           /\ Cardinality(at) <= 1

RECURSIVE ValueAt(_, _)
\* What the dict holds at the path, None when it holds nothing there
ValueAt(d, rel) ==
    IF rel[1] \notin DOMAIN d THEN NONE
    ELSE IF Len(rel) = 1 THEN d[rel[1]]
    ELSE ValueAt(d[rel[1]], Tail(rel))

\* The value the ospf given this run carries for each child field, and the
\* path of the field
OspfChildren ==
    LET o == params["ospf"]
    IN {<<Get(o, "cost"), <<"ospfAreaConfig", "cost">> >>,
        <<Get(o, "area_id"), <<"ospfAreaConfig", "id">> >>,
        <<Get(o, "area_type"), <<"ospfAreaConfig", "areaType">> >>,
        <<Get(o, "send_redistributed_lsas"), <<"ospfAreaConfig", "control", "redistribute">> >>,
        <<Get(o, "originate_summary_lsa"), <<"ospfAreaConfig", "control", "originate">> >>,
        <<Get(o, "suppress_forwarding_addr_translated_lsa"),
          <<"ospfAreaConfig", "control", "suppressFA">> >>,
        <<ORIGINATE_DEFAULT_ROUTE(Get(o, "originate_default_route")),
          <<"defaultRouteLeak", "originateDefaultRoute">> >>,
        <<Get(o, "originate_default_route_always"), <<"defaultRouteLeak", "always">> >>}

\* C19: in update mode with ospf given with children, every child that
\* carries a value differing from the stored one gets an operation setting
\* it at its nested path, whatever the other children are; so does
\* originate_default_route_always when originate_default_route is not given
\* or is the empty string.
C19_OspfChildrenIndependent ==
    (Updated /\ GivenNonEmpty("ospf"))
    => \A c \in OspfChildren :
          (c[1] \notin {NONE, ""} /\ c[1] # ValueAt(Stored, c[2]))
          => \E j \in OpsAt(AttrPath(c[2])) : ops[j].op # "remove" /\ ops[j].value = c[1]

\* The path segments that name the L3Outs of the fetched template
Indexes == {ToString(i - 1) : i \in 1..Len(snapshot)}

\* C20: the final operation list of an invocation is empty, or exactly one
\* add at /l3outTemplate/l3outs/-, or exactly one remove at
\* /l3outTemplate/l3outs/i, or field-level operations all under one
\* /l3outTemplate/l3outs/i/ prefix; the shapes are never mixed.
C20_OneLifecycleAction ==
    Ended
    => \/ ops = <<>>
       \/ /\ Len(ops) = 1 /\ ops[1].op = "add"
          /\ ops[1].path = <<"l3outTemplate", "l3outs", "-">>
          /\ mode = "create"
       \/ /\ Len(ops) = 1 /\ ops[1].op = "remove"
          /\ \E i \in Indexes : ops[1].path = <<"l3outTemplate", "l3outs", i>>
          /\ mode = "delete"
       \/ /\ \E i \in Indexes : \A j \in 1..Len(ops) :
                /\ Len(ops[j].path) > 3
                /\ SubSeq(ops[j].path, 1, 3) = <<"l3outTemplate", "l3outs", i>>
          /\ mode = "update"

\* C20 witness: an update built several field-level operations, all on the
\* L3Out at position 1.
C20_Witness ==
    /\ mode = "update" /\ Len(ops) >= 2 /\ Len(snapshot) = 2
    /\ \A j \in 1..Len(ops) :
          Len(ops[j].path) > 3 /\ SubSeq(ops[j].path, 1, 3) = <<"l3outTemplate", "l3outs", "1">>

\* The state the last invocation reported (mso.existing at exit_json)
Reported ==
    exit_existing(params, snapshot, Stored, l3out_object_index(params, snapshot))

\* C21: with state=query the operation list is empty and no PATCH is sent;
\* the run reports the whole l3outs list unchanged when neither name nor
\* uuid is given, the L3Out the identifier matches when it matches one, and
\* an empty result without failure when it matches none.
C21_QueryReports ==
    (Ended /\ Get(params, "state") = "query")
    => /\ ops = <<>> /\ sent = <<>> /\ failure = "" /\ l3outs = snapshot
       /\ IF {"name", "uuid"} \cap DOMAIN params = {} THEN Reported = List(snapshot)
          ELSE IF IdentifierMatches # {}
               THEN Reported = Dict(snapshot[Min(IdentifierMatches)])
               ELSE DOMAIN Reported.value = {}

\* C22: in update mode the L3Out the run reports is the snapshot L3Out with
\* exactly the emitted operations applied; a run that emits no operation
\* reports the previous state.
C22_ReportedIsPatched ==
    (Updated /\ failure = "" /\ ~patch_rejected(snapshot, ops))
    => Reported = Dict(apply_patch(snapshot, ops)[Min(IdentifierMatches)])

\* C23: in update and delete mode every operation's path is
\* /l3outTemplate/l3outs/i or starts with it, i being the position in the
\* snapshot of the first L3Out that matches the uuid when one is given, else
\* the name.
C23_OpsOnLocatedEntity ==
    (Ended /\ mode \in {"update", "delete"})
    => LET matches == IdentifierMatches
       IN /\ matches # {}
          /\ LET l3out == <<"l3outTemplate", "l3outs", ToString(Min(matches) - 1)>>
             IN \A j \in 1..Len(ops) :
                   Len(ops[j].path) >= 3 /\ SubSeq(ops[j].path, 1, 3) = l3out

\* C23 witness: an update by uuid that gave a new name as well built its
\* operations on the L3Out at position 1, the one with the uuid.
C23_Witness ==
    /\ mode = "update" /\ Len(snapshot) = 2
    /\ Get(params, "uuid") = "uuid_1" /\ Get(params, "name") = "l3out_2"
    /\ Len(ops) >= 2
    /\ \A j \in 1..Len(ops) :
          SubSeq(ops[j].path, 1, 3) = <<"l3outTemplate", "l3outs", "1">>

====
